---- MODULE Spec2Model ----
(***************************************************************************)
(* Titan Memory semantic highlight sidecar (src/highlight-service.py).     *)
(*                                                                         *)
(* The service is one process with one asyncio event loop.  The lifespan   *)
(* context manager and every request handler are coroutines of that loop:  *)
(* a coroutine keeps the loop until it awaits.  `running` names the        *)
(* coroutine that holds the loop.                                          *)
(*                                                                         *)
(* Four specifications share the actions below:                            *)
(*   Spec      the process started by main() and served by uvicorn.run;    *)
(*   SpecLive  Spec with weak fairness of a request's steps after its call *)
(*             of _model.process;                                          *)
(*   SpecApp   the module-level ASGI application `app` driven directly by  *)
(*             a host (a test client): requests may be dispatched in any   *)
(*             lifecycle phase and the lifespan may be entered again;      *)
(*   SpecStop  the cleanup statement of lifespan applied repeatedly to any *)
(*             value of the model reference.                               *)
(*                                                                         *)
(* Floats are written in tenths (0.5 is 5, 1.5 is 15, -0.5 is -5).         *)
(* An optional value is a sequence of length 0 (absent) or 1 (present).    *)
(***************************************************************************)
EXTENDS Integers, Sequences, FiniteSets, TLC

\* Number of connections the transport holds at once.
MaxRequests == 2

\* SpecApp: number of times the host enters the lifespan.
MaxStarts == 2

\* SpecStop: number of times the cleanup statement is applied.
MaxStops == 3

VARIABLES
    pathExists,     \* os.path.exists(args.model_path), line 120
    cudaAvailable,  \* torch.cuda.is_available(), lines 53 and 103
    pc,             \* position of main() / lifespan
    exit,           \* exit status of the process: "none", "0", "1", "3"
    model,          \* the global _model, line 27
    listening,      \* the HTTP listener is bound
    running,        \* the coroutine holding the event loop
    loads,          \* invocations of AutoModel.from_pretrained
    stops,          \* executions of the cleanup statement, line 62
    slots,          \* per connection: the /highlight request in progress
    hreq,           \* the /health request in progress
    sent,           \* the last /highlight response sent
    served          \* some request handler has run

vars == <<pathExists, cudaAvailable, pc, exit, model, listening, running,
          loads, stops, slots, hreq, sent, served>>

----------------------------------------------------------------------------
\* Values

Absent == <<>>

Some(x) == <<x>>

\* Values of _model: None, the model as loaded (host memory), the model
\* after .cuda().
ModelValues == {"None", "cpu", "gpu"}

\* Field(0.5, ...) of threshold, in tenths.
DefaultThreshold == 5

\* Field(True, ...) of return_sentence_metrics.
DefaultMetrics == TRUE

\* JSON bodies a client may send: each field present or not.
Bodies ==
    [question: {Absent, Some(""), Some("q")},
     context: {Absent, Some("c")},
     threshold: {Absent, Some(-5), Some(15)},
     return_sentence_metrics: {Absent, Some(FALSE)}]

\* Results the model capability may return: a dict holding any subset of the
\* three keys.
ScoreResults ==
    [highlighted_sentences: {Absent, Some(<<>>), Some(<<"B.", "A.">>)},
     compression_rate: {Absent, Some(5)},
     sentence_probabilities: {Absent, Some(<<9, 1>>)}]

Conns == 1..MaxRequests

Free == [kind |-> "free", id |-> 0]

LifespanTask == [kind |-> "lifespan", id |-> 0]

HealthTask == [kind |-> "health", id |-> 0]

RequestTask(r) == [kind |-> "highlight", id |-> r]

\* A coroutine may take a step when it holds the loop or the loop is free.
CanRun(t) == running = Free \/ running = t

IdleSlot ==
    [pc |-> "idle", body |-> Absent, req |-> Absent, seen |-> "None",
     args |-> Absent, result |-> Absent, resp |-> Absent, status |-> 0,
     calls |-> 0]

IdleHealth == [pc |-> "idle", resp |-> Absent, status |-> 0]

NothingSent == [status |-> 0, calls |-> 0]

----------------------------------------------------------------------------
\* HighlightRequest: question and context are required (Field(...)),
\* threshold and return_sentence_metrics have defaults.

ValidBody(b) == b.question # Absent /\ b.context # Absent

ParseRequest(b) ==
    [question |-> b.question[1],
     context |-> b.context[1],
     threshold |-> IF b.threshold = Absent THEN DefaultThreshold
                   ELSE b.threshold[1],
     return_sentence_metrics |->
         IF b.return_sentence_metrics = Absent THEN DefaultMetrics
         ELSE b.return_sentence_metrics[1]]

\* A lookup that ignores the value stored under the key.
GetDefaultOnly(d, key, default) == default

\* dict.get(key, default)
Get(d, key, default) == IF d[key] = Absent THEN default ELSE d[key][1]

\* The response of the `_model is None` branch.
EmptyResponse ==
    [highlighted_sentences |-> <<>>,
     compression_rate |-> 0,
     sentence_probabilities |-> <<>>]

\* The response built from the result of _model.process.
MapResult(result) ==
    [highlighted_sentences |-> Get(result, "highlighted_sentences", <<>>),
     compression_rate |-> Get(result, "compression_rate", 0),
     sentence_probabilities |-> Get(result, "sentence_probabilities", <<>>)]

\* Arguments with the threshold clamped to [0, 1].
ProcessArgsClamped(m, req) ==
    [model |-> m,
     question |-> req.question,
     context |-> req.context,
     threshold |-> IF req.threshold < 0 THEN 0
                   ELSE IF req.threshold > 10 THEN 10 ELSE req.threshold,
     return_sentence_metrics |-> req.return_sentence_metrics]

\* The keyword arguments of _model.process, with the object it is called on.
ProcessArgs(m, req) ==
    [model |-> m,
     question |-> req.question,
     context |-> req.context,
     threshold |-> req.threshold,
     return_sentence_metrics |-> req.return_sentence_metrics]

\* A handler that awaits the call of process (run in a worker thread), giving
\* the loop to other coroutines while the call is in progress.
HandlerSuspendsAtCall == TRUE

\* highlight contains no await: it keeps the loop from entry to return.
HandlerSuspends == FALSE

AfterHandlerStep(t) == IF HandlerSuspends THEN Free ELSE t

----------------------------------------------------------------------------
\* Request handling

lifeVars == <<pathExists, cudaAvailable, pc, exit, model, listening, loads, stops>>

\* HTTP status FastAPI answers with: 200 for a returned response, 422 for a
\* body that fails validation, 500 for an exception out of the handler.
StatusOf(outcome) ==
    IF outcome = "return" THEN 200
    ELSE IF outcome = "rejected" THEN 422
    ELSE 500

\* The transport accepts a connection; its body is not read yet.
Connect(r) ==
    /\ slots[r].pc = "idle"
    /\ slots' = [slots EXCEPT ![r].pc = "pending"]
    /\ UNCHANGED <<lifeVars, running, hreq, sent, served>>

\* The request task reads the JSON body b.
ReadBody(r, b) ==
    /\ slots[r].pc = "pending"
    /\ running = Free
    /\ running' = RequestTask(r)
    /\ slots' = [slots EXCEPT ![r].pc = "parsed", ![r].body = Some(b)]
    /\ served' = TRUE
    /\ UNCHANGED <<lifeVars, hreq, sent>>

\* Validation that fills a missing question or context with "" and lets the
\* handler run.
ValidateLenient(r) ==
    /\ slots[r].pc = "parsed"
    /\ running = RequestTask(r)
    /\ LET b == slots[r].body[1]
           filled == [b EXCEPT
                        !.question = IF @ = Absent THEN Some("") ELSE @,
                        !.context = IF @ = Absent THEN Some("") ELSE @]
       IN  slots' = [slots EXCEPT ![r].pc = "handler",
                                  ![r].req = Some(ParseRequest(filled))]
    /\ UNCHANGED <<lifeVars, running, hreq, sent, served>>

\* Validation of the body against HighlightRequest, before highlight runs.
Validate(r) ==
    /\ slots[r].pc = "parsed"
    /\ running = RequestTask(r)
    /\ LET b == slots[r].body[1] IN
         IF ValidBody(b)
         THEN slots' = [slots EXCEPT ![r].pc = "handler",
                                     ![r].req = Some(ParseRequest(b))]
         ELSE slots' = [slots EXCEPT ![r].pc = "rejected",
                                     ![r].status = StatusOf("rejected")]
    /\ UNCHANGED <<lifeVars, running, hreq, sent, served>>

\* highlight with the None test left out: it always goes on to the call.
CheckNoGuard(r) ==
    /\ slots[r].pc = "handler"
    /\ running = RequestTask(r)
    /\ slots' = [slots EXCEPT ![r].pc = "call"]
    /\ UNCHANGED <<lifeVars, running, hreq, sent, served>>

\* highlight with an await between the None test and the call.
CheckThenAwait(r) ==
    /\ slots[r].pc = "handler"
    /\ running = RequestTask(r)
    /\ IF model = "None"
       THEN /\ slots' = [slots EXCEPT ![r].pc = "return",
                                      ![r].resp = Some(EmptyResponse),
                                      ![r].status = StatusOf("return")]
            /\ running' = running
       ELSE /\ slots' = [slots EXCEPT ![r].pc = "call", ![r].seen = model]
            /\ running' = Free
    /\ UNCHANGED <<lifeVars, hreq, sent, served>>

\* highlight, lines 76-81: `if _model is None: return HighlightResponse(...)`.
\* `seen` records the value of _model the test read.
Check(r) ==
    /\ slots[r].pc = "handler"
    /\ running = RequestTask(r)
    /\ IF model = "None"
       THEN slots' = [slots EXCEPT ![r].pc = "return",
                                   ![r].resp = Some(EmptyResponse),
                                   ![r].status = StatusOf("return")]
       ELSE slots' = [slots EXCEPT ![r].pc = "call", ![r].seen = model]
    /\ UNCHANGED <<lifeVars, running, hreq, sent, served>>

\* highlight, lines 83-88: `_model.process(...)` reads the global again; on
\* None the attribute lookup raises.
Call(r) ==
    /\ slots[r].pc = "call"
    /\ CanRun(RequestTask(r))
    /\ IF model = "None"
       THEN slots' = [slots EXCEPT ![r].pc = "raised",
                                   ![r].status = StatusOf("raised")]
       ELSE slots' = [slots EXCEPT
                        ![r].pc = "scoring",
                        ![r].args = Some(ProcessArgs(model, slots[r].req[1])),
                        ![r].calls = @ + 1]
    /\ running' = AfterHandlerStep(RequestTask(r))
    /\ UNCHANGED <<lifeVars, hreq, sent, served>>

\* _model.process returns the dict res.
ScoreReturn(r, res) ==
    /\ slots[r].pc = "scoring"
    /\ CanRun(RequestTask(r))
    /\ running' = RequestTask(r)
    /\ slots' = [slots EXCEPT ![r].pc = "scored", ![r].result = Some(res)]
    /\ UNCHANGED <<lifeVars, hreq, sent, served>>

\* A failed call that is tried again.
ScoreRaiseRetry(r) ==
    /\ slots[r].pc = "scoring"
    /\ CanRun(RequestTask(r))
    /\ running' = RequestTask(r)
    /\ slots' = [slots EXCEPT ![r].pc = "call"]
    /\ UNCHANGED <<lifeVars, hreq, sent, served>>

\* A handler that drops the model when the call fails.
ScoreRaiseClearsModel(r) ==
    /\ slots[r].pc = "scoring"
    /\ CanRun(RequestTask(r))
    /\ running' = RequestTask(r)
    /\ slots' = [slots EXCEPT ![r].pc = "raised",
                              ![r].status = StatusOf("raised")]
    /\ model' = "None"
    /\ UNCHANGED <<pathExists, cudaAvailable, pc, exit, listening, loads,
                   stops, hreq, sent, served>>

\* _model.process raises; highlight has no except clause.
ScoreRaise(r) ==
    /\ slots[r].pc = "scoring"
    /\ CanRun(RequestTask(r))
    /\ running' = RequestTask(r)
    /\ slots' = [slots EXCEPT ![r].pc = "raised",
                              ![r].status = StatusOf("raised")]
    /\ UNCHANGED <<lifeVars, hreq, sent, served>>

\* highlight, lines 90-94: `return HighlightResponse(... result.get(...) ...)`.
Map(r) ==
    /\ slots[r].pc = "scored"
    /\ running = RequestTask(r)
    /\ slots' = [slots EXCEPT ![r].pc = "return",
                              ![r].resp = Some(MapResult(slots[r].result[1])),
                              ![r].status = StatusOf("return")]
    /\ UNCHANGED <<lifeVars, running, hreq, sent, served>>

\* The response is sent and the connection closed: the handler's locals are
\* gone, the loop is released.
Respond(r) ==
    /\ slots[r].pc \in {"return", "rejected", "raised"}
    /\ running = RequestTask(r)
    /\ running' = Free
    /\ sent' = [status |-> slots[r].status, calls |-> slots[r].calls]
    /\ slots' = [slots EXCEPT ![r] = IdleSlot]
    /\ UNCHANGED <<lifeVars, hreq, served>>

\* health reporting whether a model was ever loaded instead of whether one is
\* held now.
HealthResponseEverLoaded ==
    [status |-> "ok",
     model_loaded |-> loads > 0,
     gpu_available |-> cudaAvailable]

\* health, lines 97-104.
HealthResponse ==
    [status |-> "ok",
     model_loaded |-> model # "None",
     gpu_available |-> cudaAvailable]

HealthHandle ==
    /\ hreq.pc = "idle"
    /\ running = Free
    /\ running' = HealthTask
    /\ hreq' = [pc |-> "return", resp |-> Some(HealthResponse),
                status |-> StatusOf("return")]
    /\ served' = TRUE
    /\ UNCHANGED <<lifeVars, slots, sent>>

HealthRespond ==
    /\ hreq.pc = "return"
    /\ running = HealthTask
    /\ running' = Free
    /\ hreq' = IdleHealth
    /\ UNCHANGED <<lifeVars, slots, sent, served>>

----------------------------------------------------------------------------
\* Lifecycle: main() and lifespan

reqVars == <<slots, hreq, sent, served>>

\* lifespan is suspended at its yield (line 59).
AtYield == pc \in {"yielded", "serving", "draining"}

\* No request is in progress on any connection.
Quiescent ==
    /\ \A r \in Conns : slots[r].pc = "idle"
    /\ hreq.pc = "idle"

\* main without the existence test of line 120.
MainNoPathCheck ==
    /\ pc = "main"
    /\ pc' = "startup"
    /\ UNCHANGED <<pathExists, cudaAvailable, exit, model, listening, running,
                   loads, stops, reqVars>>

\* main, lines 119-128: exit 1 when the model path is missing, else hand the
\* application to uvicorn.run, which enters lifespan before binding.
Main ==
    /\ pc = "main"
    /\ IF ~pathExists
       THEN pc' = "exited" /\ exit' = "1"
       ELSE pc' = "startup" /\ exit' = exit
    /\ UNCHANGED <<pathExists, cudaAvailable, model, listening, running,
                   loads, stops, reqVars>>

\* A load that is tried again when it raises.
LifespanLoadRetry(ok) ==
    /\ pc = "startup"
    /\ running = Free
    /\ loads' = loads + 1
    /\ IF ok
       THEN model' = "cpu" /\ pc' = "loaded" /\ running' = LifespanTask
       ELSE model' = model /\ pc' = "startup" /\ running' = Free
    /\ UNCHANGED <<pathExists, cudaAvailable, exit, listening, stops, reqVars>>

\* A lifespan that yields as soon as the model is loaded, leaving the
\* placement on the device for later.
LifespanLoadYieldsEarly(ok) ==
    /\ pc = "startup"
    /\ running = Free
    /\ loads' = loads + 1
    /\ IF ok
       THEN model' = "cpu" /\ pc' = "yielded" /\ running' = Free
       ELSE model' = model /\ pc' = "failed" /\ running' = Free
    /\ UNCHANGED <<pathExists, cudaAvailable, exit, listening, stops, reqVars>>

\* lifespan, line 50: `_model = AutoModel.from_pretrained(...)`.  The
\* assignment happens only when the call returns; an exception leaves lifespan.
LifespanLoad(ok) ==
    /\ pc = "startup"
    /\ running = Free
    /\ loads' = loads + 1
    /\ IF ok
       THEN model' = "cpu" /\ pc' = "loaded" /\ running' = LifespanTask
       ELSE model' = model /\ pc' = "failed" /\ running' = Free
    /\ UNCHANGED <<pathExists, cudaAvailable, exit, listening, stops, reqVars>>

\* A placement that assigns the result of an in-place call, which is None.
LifespanPlaceAssignsNone(ok) ==
    /\ pc = "loaded"
    /\ running = LifespanTask
    /\ IF cudaAvailable
       THEN IF ok
            THEN model' = "None" /\ pc' = "placed" /\ running' = running
            ELSE model' = model /\ pc' = "failed" /\ running' = Free
       ELSE ok /\ model' = model /\ pc' = "placed" /\ running' = running
    /\ UNCHANGED <<pathExists, cudaAvailable, exit, listening, loads, stops,
                   reqVars>>

\* lifespan, lines 53-57: `if torch.cuda.is_available(): _model = _model.cuda()`.
LifespanPlace(ok) ==
    /\ pc = "loaded"
    /\ running = LifespanTask
    /\ IF cudaAvailable
       THEN IF ok
            THEN model' = "gpu" /\ pc' = "placed" /\ running' = running
            ELSE model' = model /\ pc' = "failed" /\ running' = Free
       ELSE ok /\ model' = model /\ pc' = "placed" /\ running' = running
    /\ UNCHANGED <<pathExists, cudaAvailable, exit, listening, loads, stops,
                   reqVars>>

\* lifespan, line 59: `yield`.
LifespanYield ==
    /\ pc = "placed"
    /\ running = LifespanTask
    /\ pc' = "yielded"
    /\ running' = Free
    /\ UNCHANGED <<pathExists, cudaAvailable, exit, model, listening, loads,
                   stops, reqVars>>

\* A cleanup that leaves the reference as it is.
StopModelKeep(m) == m

\* lifespan, line 62: `_model = None`.
StopModel(m) == "None"

\* lifespan, lines 61-63: resumed after the yield.
LifespanCleanup ==
    /\ AtYield
    /\ running = Free
    /\ model' = StopModel(model)
    /\ stops' = stops + 1
    /\ pc' = "stopped"
    /\ UNCHANGED <<pathExists, cudaAvailable, exit, listening, running, loads,
                   reqVars>>

\* lifespan, lines 59-62: the yield is not inside try/finally, so an exception
\* (or cancellation) delivered at the yield leaves lifespan at once.
LifespanThrow ==
    /\ AtYield
    /\ running = Free
    /\ pc' = "aborted"
    /\ listening' = FALSE
    /\ UNCHANGED <<pathExists, cudaAvailable, exit, model, loads, stops,
                   running, reqVars>>

\* A failed startup that is logged and ignored: the server goes on to bind.
StartupFailedIgnored ==
    /\ pc = "failed"
    /\ pc' = "serving"
    /\ listening' = TRUE
    /\ UNCHANGED <<pathExists, cudaAvailable, exit, model, running, loads,
                   stops, reqVars>>

\* uvicorn.run, line 128: a failed lifespan startup ends the process with
\* uvicorn's startup-failure status, before any socket is bound.
StartupFailed ==
    /\ pc = "failed"
    /\ pc' = "exited"
    /\ exit' = "3"
    /\ UNCHANGED <<pathExists, cudaAvailable, model, listening, running,
                   loads, stops, reqVars>>

\* uvicorn.run, line 128: the listener is bound once lifespan has yielded.
Bind ==
    /\ pc = "yielded"
    /\ pc' = "serving"
    /\ listening' = TRUE
    /\ UNCHANGED <<pathExists, cudaAvailable, exit, model, running, loads,
                   stops, reqVars>>

\* A shutdown that cancels the requests in progress.
ShutdownBeginCancels ==
    /\ pc = "serving"
    /\ pc' = "draining"
    /\ listening' = FALSE
    /\ running' = Free
    /\ slots' = [r \in Conns |-> IdleSlot]
    /\ UNCHANGED <<pathExists, cudaAvailable, exit, model, loads, stops,
                   hreq, sent, served>>

\* uvicorn.run: a termination signal closes the listener.
ShutdownBegin ==
    /\ pc = "serving"
    /\ pc' = "draining"
    /\ listening' = FALSE
    /\ UNCHANGED <<pathExists, cudaAvailable, exit, model, running, loads,
                   stops, reqVars>>

\* uvicorn.run: lifespan is resumed once the requests in progress are done.
Shutdown ==
    /\ pc = "draining"
    /\ Quiescent
    /\ LifespanCleanup

\* uvicorn.run: a forced exit, or an error in the serving loop, ends lifespan
\* with an exception instead of resuming it.
Abort ==
    /\ pc \in {"serving", "draining"}
    /\ LifespanThrow

\* main returns after uvicorn.run, once no coroutine is running; connections
\* not yet read are dropped with the process.
Exit ==
    /\ pc \in {"stopped", "aborted"}
    /\ running = Free
    /\ pc' = "exited"
    /\ exit' = "0"
    /\ slots' = [r \in Conns |-> IdleSlot]
    /\ UNCHANGED <<pathExists, cudaAvailable, model, listening, running,
                   loads, stops, hreq, sent, served>>

\* uvicorn.run accepts connections while the listener is bound.
Accept(r) == listening /\ Connect(r)

Health == listening /\ HealthHandle

Init ==
    /\ pathExists \in BOOLEAN
    /\ cudaAvailable \in BOOLEAN
    /\ pc = "main"
    /\ exit = "none"
    /\ model = "None"
    /\ listening = FALSE
    /\ running = Free
    /\ loads = 0
    /\ stops = 0
    /\ slots = [r \in Conns |-> IdleSlot]
    /\ hreq = IdleHealth
    /\ sent = NothingSent
    /\ served = FALSE

Handle(r) ==
    \/ \E b \in Bodies : ReadBody(r, b)
    \/ Validate(r)
    \/ Check(r)
    \/ Call(r)
    \/ \E res \in ScoreResults : ScoreReturn(r, res)
    \/ ScoreRaise(r)
    \/ Map(r)
    \/ Respond(r)

Next ==
    \/ Main
    \/ \E ok \in BOOLEAN : LifespanLoad(ok)
    \/ \E ok \in BOOLEAN : LifespanPlace(ok)
    \/ LifespanYield
    \/ StartupFailed
    \/ Bind
    \/ ShutdownBegin
    \/ Shutdown
    \/ Abort
    \/ Exit
    \/ \E r \in Conns : Accept(r)
    \/ \E r \in Conns : Handle(r)
    \/ Health
    \/ HealthRespond

Spec == Init /\ [][Next]_vars

\* What the coroutine of request r does once process has been called: the
\* call returns or raises, the result is mapped, the response is sent.
Progress(r) ==
    \/ \E res \in ScoreResults : ScoreReturn(r, res)
    \/ ScoreRaise(r)
    \/ Map(r)
    \/ Respond(r)

\* The process under the assumptions that a call of _model.process ends and
\* that a coroutine holding the event loop keeps executing.
SpecLive == Spec /\ \A r \in Conns : WF_vars(Progress(r))

----------------------------------------------------------------------------
\* The application object driven directly by an ASGI host.  The host sets
\* app.state.model_path, may enter lifespan (again after it has ended), and
\* dispatches requests whenever the loop is free, in any lifecycle phase.

HostStart ==
    /\ pc \in {"imported", "failed", "stopped", "aborted"}
    /\ loads < MaxStarts
    /\ pc' = "startup"
    /\ UNCHANGED <<pathExists, cudaAvailable, exit, model, listening, running,
                   loads, stops, reqVars>>

InitApp ==
    /\ pathExists = TRUE
    /\ cudaAvailable \in BOOLEAN
    /\ pc = "imported"
    /\ exit = "none"
    /\ model = "None"
    /\ listening = FALSE
    /\ running = Free
    /\ loads = 0
    /\ stops = 0
    /\ slots = [r \in Conns |-> IdleSlot]
    /\ hreq = IdleHealth
    /\ sent = NothingSent
    /\ served = FALSE

NextApp ==
    \/ HostStart
    \/ \E ok \in BOOLEAN : LifespanLoad(ok)
    \/ \E ok \in BOOLEAN : LifespanPlace(ok)
    \/ LifespanYield
    \/ LifespanCleanup
    \/ LifespanThrow
    \/ \E r \in Conns : Connect(r)
    \/ \E r \in Conns : Handle(r)
    \/ HealthHandle
    \/ HealthRespond

SpecApp == InitApp /\ [][NextApp]_vars

----------------------------------------------------------------------------
\* The cleanup statement of lifespan applied repeatedly, starting from any
\* value the model reference can hold once startup is over, with requests
\* served in between.

\* The model reference a completed startup leaves.
ReadyModel == IF cudaAvailable THEN "gpu" ELSE "cpu"

StopCall ==
    /\ pc = "stopping"
    /\ running = Free
    /\ stops < MaxStops
    /\ model' = StopModel(model)
    /\ stops' = stops + 1
    /\ UNCHANGED <<pathExists, cudaAvailable, pc, exit, listening, running,
                   loads, reqVars>>

InitStop ==
    /\ pathExists = TRUE
    /\ cudaAvailable \in BOOLEAN
    /\ pc = "stopping"
    /\ exit = "none"
    /\ model \in {"None", ReadyModel}
    /\ listening = FALSE
    /\ running = Free
    /\ loads = 0
    /\ stops = 0
    /\ slots = [r \in Conns |-> IdleSlot]
    /\ hreq = IdleHealth
    /\ sent = NothingSent
    /\ served = FALSE

NextStop ==
    \/ StopCall
    \/ \E r \in Conns : Connect(r)
    \/ \E r \in Conns : Handle(r)
    \/ HealthHandle
    \/ HealthRespond

SpecStop == InitStop /\ [][NextStop]_vars

----------------------------------------------------------------------------
\* Claims

\* The handler has passed the `_model is None` test of line 76.
PastCheck(r) == slots[r].pc \in {"call", "scoring", "scored", "raised", "return"}

\* C1: a /highlight request handled while no model reference is held returns
\* with HTTP 200 exactly highlighted_sentences = [], compression_rate = 0.0,
\* sentence_probabilities = [], and _model.process is not invoked.
C1_DegradedWhenNoModel ==
    \A r \in Conns :
        (model = "None" /\ PastCheck(r)) =>
            /\ slots[r].pc = "return"
            /\ slots[r].status = 200
            /\ slots[r].resp # Absent
            /\ slots[r].resp[1].highlighted_sentences = <<>>
            /\ slots[r].resp[1].compression_rate = 0
            /\ slots[r].resp[1].sentence_probabilities = <<>>
            /\ slots[r].calls = 0
            /\ slots[r].args = Absent

\* A request with an out-of-range threshold got the degraded response before
\* any lifespan was entered.
C1_Witness ==
    \E r \in Conns :
        /\ slots[r].pc = "return"
        /\ model = "None"
        /\ loads = 0
        /\ slots[r].body[1].threshold = Some(15)
        /\ slots[r].body[1].return_sentence_metrics = Some(FALSE)


\* C2: /health answers HTTP 200 with status "ok", and model_loaded is exactly
\* whether a model reference is held: false before any start and after stop,
\* true while lifespan is at its yield after a successful start.
C2_HealthReflectsModel ==
    hreq.pc = "return" =>
        /\ hreq.status = 200
        /\ hreq.resp[1].status = "ok"
        /\ hreq.resp[1].model_loaded = (model # "None")
        /\ pc \in {"imported", "stopped"} => hreq.resp[1].model_loaded = FALSE
        /\ AtYield => hreq.resp[1].model_loaded = TRUE

\* /health answered after a start, a scored request and a stop.
C2_Witness ==
    /\ hreq.pc = "return"
    /\ pc = "stopped"
    /\ hreq.resp[1].model_loaded = FALSE
    /\ sent.status = 200
    /\ sent.calls = 1

\* C3: started with a model path that does not exist, the process exits with
\* status 1 and nothing else happens: no model load, no listener, no request.
C3_MissingPathExitsBeforeBind ==
    ~pathExists =>
        /\ pc \in {"main", "exited"}
        /\ pc = "exited" => exit = "1"
        /\ pc = "main" => exit = "none"
        /\ ~listening
        /\ loads = 0
        /\ model = "None"
        /\ ~served
        /\ \A r \in Conns : slots[r].pc = "idle"
        /\ hreq.pc = "idle"

C3_Witness == ~pathExists /\ pc = "exited" /\ exit = "1"

\* The state of a process whose startup has raised.
C4_FailedStartInv ==
    (pc = "failed" \/ exit = "3") =>
        /\ pathExists
        /\ loads = 1
        /\ ~listening
        /\ ~served
        /\ \A r \in Conns : slots[r].pc = "idle"
        /\ hreq.pc = "idle"
        /\ exit = "3" => pc = "exited"

\* C4: when the model path exists and startup raises (from_pretrained or
\* .cuda()), the load has been attempted once, the only step left is the exit
\* of the process with a non-zero status, and no request is ever served.
C4_StartFailsFast ==
    /\ []C4_FailedStartInv
    /\ [][pc = "failed" => (pc' = "exited" /\ exit' = "3")]_vars
    /\ [][pc = "exited" => pc' = "exited"]_vars

\* The process has exited after .cuda() raised on a loaded model.
C4_Witness ==
    /\ pc = "exited"
    /\ exit = "3"
    /\ cudaAvailable
    /\ model = "cpu"

\* C5: each field of the response built from a result of _model.process is the
\* result's value under that key when the key is present and the default
\* ([], 0.0, []) when it is absent, with HTTP 200; no result, however partial,
\* makes the request fail.
C5_ResultMappedWithDefaults ==
    \A r \in Conns :
        /\ (slots[r].pc = "return" /\ slots[r].calls > 0) =>
            LET res == slots[r].result[1]
                out == slots[r].resp[1]
            IN  /\ slots[r].status = 200
                /\ res.highlighted_sentences # Absent =>
                       out.highlighted_sentences = res.highlighted_sentences[1]
                /\ res.highlighted_sentences = Absent =>
                       out.highlighted_sentences = <<>>
                /\ res.compression_rate # Absent =>
                       out.compression_rate = res.compression_rate[1]
                /\ res.compression_rate = Absent => out.compression_rate = 0
                /\ res.sentence_probabilities # Absent =>
                       out.sentence_probabilities = res.sentence_probabilities[1]
                /\ res.sentence_probabilities = Absent =>
                       out.sentence_probabilities = <<>>
        /\ slots[r].pc = "raised" => slots[r].result = Absent

\* A result with sentences and no probabilities has been mapped.
C5_Witness ==
    \E r \in Conns :
        /\ slots[r].pc = "return"
        /\ slots[r].calls > 0
        /\ slots[r].result[1].highlighted_sentences = Some(<<"B.", "A.">>)
        /\ slots[r].result[1].compression_rate = Absent
        /\ slots[r].result[1].sentence_probabilities = Absent
        /\ slots[r].resp[1].highlighted_sentences = <<"B.", "A.">>

\* C6: _model.process is invoked with the body's question, context, threshold
\* and return_sentence_metrics as sent, a missing threshold being 0.5 and a
\* missing return_sentence_metrics being true.
C6_ArgsPassedThrough ==
    \A r \in Conns :
        slots[r].args # Absent =>
            LET b == slots[r].body[1]
                a == slots[r].args[1]
            IN  /\ a.question = b.question[1]
                /\ a.context = b.context[1]
                /\ b.threshold # Absent => a.threshold = b.threshold[1]
                /\ b.threshold = Absent => a.threshold = 5
                /\ b.return_sentence_metrics # Absent =>
                       a.return_sentence_metrics = b.return_sentence_metrics[1]
                /\ b.return_sentence_metrics = Absent =>
                       a.return_sentence_metrics = TRUE

\* process was invoked with an empty question and a threshold of 1.5.
C6_Witness ==
    \E r \in Conns :
        /\ slots[r].pc = "scoring"
        /\ slots[r].body[1].question = Some("")
        /\ slots[r].args[1].question = ""
        /\ slots[r].args[1].threshold = 15
        /\ slots[r].body[1].return_sentence_metrics = Absent

\* C7: after the service has stopped, by a normal shutdown or by an exception
\* delivered to lifespan while it is at its yield, the model reference is
\* absent.
C7_ReleasedOnEveryShutdown ==
    pc \in {"stopped", "aborted"} => model = "None"

\* C8: the cleanup statement can be executed any number of times, whatever the
\* model reference holds, and after each execution no model is held.
C8_StopIdempotent ==
    /\ stops > 0 => model = "None"
    /\ (running = Free /\ stops < MaxStops) => ENABLED StopCall

\* The cleanup statement has run at least twice: the later runs found the
\* reference already absent.
C8_Witness ==
    /\ stops >= 2
    /\ model = "None"
    /\ served

\* The state of a request whose call of _model.process has raised.
C9_FailedCallInv ==
    \A r \in Conns :
        /\ slots[r].calls <= 1
        /\ slots[r].pc = "raised" =>
            /\ slots[r].status = 500
            /\ slots[r].resp = Absent
            /\ slots[r].result = Absent
            /\ slots[r].args # Absent => model = slots[r].args[1].model
        /\ (slots[r].pc = "return" /\ slots[r].calls > 0) =>
               slots[r].result # Absent

\* C9: within one request _model.process is invoked at most once; when it
\* raises, the request has no response object and ends as HTTP 500, never as a
\* returned response, and the model reference is the one the call was made on.
C9_SingleShotFailure ==
    /\ []C9_FailedCallInv
    /\ [][\A r \in Conns :
            slots[r].pc = "raised" =>
                \/ slots'[r] = slots[r]
                \/ /\ slots'[r] = IdleSlot
                   /\ sent' = [status |-> 500, calls |-> slots[r].calls]
                   /\ model' = model]_vars

\* A request whose single call of process raised has been answered with 500.
C9_Witness ==
    /\ sent.status = 500
    /\ sent.calls = 1

\* The state of a request whose body lacks a required field.
C10_RejectedInv ==
    \A r \in Conns :
        (/\ slots[r].body # Absent
         /\ slots[r].pc # "parsed"
         /\ \/ slots[r].body[1].question = Absent
            \/ slots[r].body[1].context = Absent) =>
            /\ slots[r].pc = "rejected"
            /\ slots[r].status = 422
            /\ slots[r].req = Absent
            /\ slots[r].args = Absent
            /\ slots[r].resp = Absent
            /\ slots[r].calls = 0

\* C10: a body without question or without context is rejected with HTTP 422
\* before highlight runs, whatever the model reference holds: no request
\* object, no call of _model.process, no response object.
C10_MalformedBodyRejected ==
    /\ []C10_RejectedInv
    /\ [][\A r \in Conns :
            slots[r].pc = "rejected" =>
                \/ slots'[r] = slots[r]
                \/ /\ slots'[r] = IdleSlot
                   /\ sent' = [status |-> 422, calls |-> 0]]_vars

\* A body without context has been rejected while a model is held.
C10_Witness ==
    \E r \in Conns :
        /\ slots[r].pc = "rejected"
        /\ model # "None"
        /\ slots[r].body[1].question = Some("q")
        /\ slots[r].body[1].context = Absent

\* Some request handler is running or can be started.
HandlerCanRun ==
    \/ listening
    \/ hreq.pc # "idle"
    \/ \E r \in Conns : slots[r].pc \notin {"idle", "pending"}

\* C11: whenever a request handler can run, the model reference is None or the
\* fully initialised model (on the device when CUDA is available); the model
\* as loaded and not yet placed is never read by /highlight or /health.
C11_NoPartialModelVisible ==
    /\ HandlerCanRun => model \in {"None", ReadyModel}
    /\ \A r \in Conns :
           slots[r].args # Absent => slots[r].args[1].model = ReadyModel
    /\ (hreq.pc = "return" /\ hreq.resp[1].model_loaded) => model = ReadyModel

\* With CUDA available, process has been invoked on the placed model.
C11_Witness ==
    /\ cudaAvailable
    /\ \E r \in Conns :
           /\ slots[r].pc = "scoring"
           /\ slots[r].args[1].model = "gpu"

\* C12: after a start that failed, in from_pretrained or in .cuda(), the model
\* reference is absent.
C12_FailedStartLeavesNoModel ==
    (pc = "failed" \/ exit = "3") => model = "None"

\* The requests whose call of _model.process is in progress.
Scoring == {r \in Conns : slots[r].pc = "scoring"}

\* C13: at most one call of _model.process is in progress at any time, and
\* while one is, its request holds the event loop: no other /highlight
\* handler and no /health handler is past reading its request, and the only
\* steps taken are the return or raise of that call and the transport
\* accepting connections.
C13_ScoringSerialized ==
    /\ [](/\ Cardinality(Scoring) <= 1
          /\ \A r \in Scoring :
                 /\ running = RequestTask(r)
                 /\ hreq.pc = "idle"
                 /\ \A q \in Conns \ {r} : slots[q].pc \in {"idle", "pending"})
    /\ [][\A r \in Scoring :
            /\ slots'[r].pc \in {"scored", "raised"}
               \/ (slots'[r] = slots[r] /\ running' = running /\ hreq' = hreq)
            /\ \A q \in Conns \ {r} : slots'[q].pc \in {"idle", "pending"}]_vars

\* A call of process is in progress while another connection waits.
C13_Witness ==
    \E r, q \in Conns :
        /\ r # q
        /\ slots[r].pc = "scoring"
        /\ slots[q].pc = "pending"

\* C14: a request that found the model present calls process on that same
\* model: between the None test and the call the reference is neither cleared
\* nor replaced, so the call never fails on a None reference.
C14_CheckThenUseSameModel ==
    \A r \in Conns :
        /\ slots[r].pc = "call" =>
               (slots[r].seen # "None" /\ model = slots[r].seen)
        /\ slots[r].args # Absent =>
               /\ slots[r].seen # "None"
               /\ slots[r].args[1].model = slots[r].seen
        /\ slots[r].pc = "raised" => slots[r].calls = 1

\* process has been called in a second lifespan, after a first one ended.
C14_Witness ==
    \E r \in Conns :
        /\ slots[r].pc = "scoring"
        /\ loads = 2
        /\ pc = "yielded"
        /\ slots[r].args[1].model = slots[r].seen

\* C15: no step of a /highlight or /health request changes the model
\* reference; it changes only in lifespan's load and placement and in its
\* cleanup.
C15_HandlersNeverMutateModel ==
    /\ [][((\E r \in Conns : slots'[r] # slots[r]) \/ hreq' # hreq \/ sent' # sent)
            => model' = model]_vars
    /\ [][model' # model =>
            \/ pc = "startup" /\ pc' = "loaded"
            \/ pc = "loaded" /\ pc' = "placed"
            \/ AtYield /\ pc' = "stopped"]_vars

\* A request whose call of process raised has been answered, and the model
\* loaded by the only start is still held.
C15_Witness ==
    /\ sent.status = 500
    /\ loads = 1
    /\ stops = 0
    /\ pc = "yielded"
    /\ model = ReadyModel

\* lifespan is at its yield after a successful start and shutdown has not
\* begun.
InServingWindow == pc \in {"yielded", "serving"}

\* C16: from the completion of a successful start to the beginning of
\* shutdown a model is held, and every request that reaches highlight in that
\* window finds it and goes on to call process; no degraded response is built
\* in the window.
C16_ReadyWhileServing ==
    InServingWindow =>
        /\ model = ReadyModel
        /\ \A r \in Conns :
               /\ PastCheck(r) => slots[r].seen = model
               /\ slots[r].pc \in {"scoring", "scored", "return"} =>
                      (slots[r].calls = 1 /\ slots[r].args # Absent)
               /\ slots[r].pc = "return" => slots[r].result # Absent

\* In the window a well-formed request has had its result mapped, after an
\* earlier request was answered with the degraded response outside it.
C16_Witness ==
    /\ InServingWindow
    /\ sent = [status |-> 200, calls |-> 0]
    /\ \E r \in Conns : slots[r].pc = "return" /\ slots[r].calls = 1

\* The model is loaded and cleared at most once, and process is called only
\* after the load and while the reference has not been cleared (a lifespan
\* ended by an exception leaves requests already accepted to be served).
C17_OnceInv ==
    /\ loads <= 1
    /\ stops <= 1
    /\ stops = 1 => model = "None"
    /\ \A r \in Conns :
           slots[r].args # Absent =>
               /\ pc \in {"serving", "draining", "aborted"}
               /\ loads = 1
               /\ stops = 0
               /\ model # "None"

\* C17: in one process the model is acquired at most once; the reference
\* goes from absent to present only in the one startup, from present to absent
\* only in the one cleanup, never becomes present again after that, and
\* process is never called before lifespan has yielded or after the cleanup.
C17_LifecycleMonotone ==
    /\ []C17_OnceInv
    /\ [][(model = "None" /\ model' # "None") =>
            (pc = "startup" /\ loads = 0 /\ stops = 0)]_vars
    /\ [][(model # "None" /\ model' = "None") =>
            (pc = "draining" /\ pc' = "stopped" /\ stops = 0)]_vars

\* The process has exited after one load, a scored request and one cleanup.
C17_Witness ==
    /\ pc = "exited"
    /\ exit = "0"
    /\ loads = 1
    /\ stops = 1
    /\ model = "None"
    /\ sent = [status |-> 200, calls |-> 1]

\* C18: a request whose call of process is in progress is not cancelled or
\* timed out: the only step open to it is the return or the raise of the call,
\* a returned result is only ever mapped, no other step (another connection,
\* the start of shutdown) changes it, and, the call ending, the request
\* reaches a mapped response or a propagated failure.
C18_NoCancellation ==
    /\ [][\A r \in Conns :
            /\ slots[r].pc = "scoring" =>
                   /\ slots'[r].pc \in {"scoring", "scored", "raised"}
                   /\ slots'[r].args = slots[r].args
            /\ slots[r].pc = "scored" =>
                   \/ slots'[r] = slots[r]
                   \/ /\ slots'[r].pc = "return"
                      /\ slots'[r].status = 200
                      /\ slots'[r].result = slots[r].result]_vars
    /\ \A r \in Conns :
           (slots[r].pc = "scoring") ~> (slots[r].pc \in {"return", "raised"})
    /\ \A r \in Conns :
           (slots[r].pc \in {"return", "raised"}) ~> (slots[r].pc = "idle")

\* Shutdown has begun while a call of process is in progress and another
\* connection waits.
C18_Witness ==
    \E r, q \in Conns :
        /\ r # q
        /\ pc = "draining"
        /\ slots[r].pc = "scoring"
        /\ slots[q].pc = "pending"

====
